---- MODULE Spec2Model ----
(***************************************************************************)
(* Region-based colour classification of the clothes quiz.                *)
(*                                                                         *)
(* Two classifier modules live in the repository:                          *)
(*   src/src/utils/colorClassifier.ts  (gate 15/20, radius 45, floor 0.4)  *)
(*   src/unnamed/part_000              (gate 8/15, radius 60, no floor,    *)
(*                                      forceClassifyColor)                *)
(* Definitions modelling the second module carry the suffix _part000.      *)
(*                                                                         *)
(* JavaScript numbers are modelled as IEEE-754 doubles: every arithmetic   *)
(* operation rounds its exact result to 53 significant bits, ties to even. *)
(* Colour labels are the members of ColorLabel in ASCII: "skyblue",        *)
(* "yellow", "orange", "red", "purple" and "unknown" (the sixth member of  *)
(* the type).                                                              *)
(***************************************************************************)
EXTENDS Integers, Sequences, FiniteSets, TLC

VARIABLES call, args, ret, sampled, centroids, kmeansRan, rounds,
          input1, input2, input3, isSolved, errorMsg,
          timers, now, attempts, shown, cleared

\* The state of one classifier call.
classifierVars == <<call, args, ret, sampled, centroids, kmeansRan, rounds>>

\* The state of the BlueBoxQuiz component: its refs, the pending setTimeout
\* callbacks, the clock in milliseconds, the number of wrong attempts so
\* far, the attempt whose message is shown (its number and time) and the
\* last clearing of a shown message by a timer callback (the attempt of
\* the timer, the attempt of the message, and the time).
quizVars == <<input1, input2, input3, isSolved, errorMsg,
              timers, now, attempts, shown, cleared>>

vars == <<call, args, ret, sampled, centroids, kmeansRan, rounds,
          input1, input2, input3, isSolved, errorMsg,
          timers, now, attempts, shown, cleared>>

---------------------------------------------------------------------------
(* Numbers *)

\* A JavaScript number is an IEEE-754 double.  A finite double is kept as
\* [s, m, e]: sign s (-1, 0 or 1), odd magnitude m below 2^53 and exponent
\* e, standing for s * m * 2^e; zero is [0, <<>>, 0].  Magnitudes are
\* natural numbers written as sequences of limbs in base 2^14, the least
\* significant first, without leading zero limbs.  Every operation forms
\* the exact result and rounds it to 53 bits, ties to even, as the
\* hardware does.

Abs(i) == IF i < 0 THEN -i ELSE i

\* The base of the limbs, 2^14.
Base == 16384

\* The number of bits of a limb.
LimbBits == 14

\* The number of significant bits of a double.
Precision == 53

\* With(v, F): "const x = v; F(x)": v is evaluated once.
With(v, F(_)) == CHOOSE out \in {F(wx) : wx \in {v}} : TRUE

\* Limb i of a, zero beyond its length.
Limb(a, i) == IF i <= Len(a) THEN a[i] ELSE 0

RECURSIVE BTrim(_)
BTrim(a) ==
    IF a = <<>> THEN <<>>
    ELSE IF a[Len(a)] = 0 THEN BTrim(SubSeq(a, 1, Len(a) - 1))
    ELSE a

RECURSIVE BFromInt(_)
BFromInt(n) ==
    IF n = 0 THEN <<>> ELSE <<n % Base>> \o BFromInt(n \div Base)

\* The integer a stands for (a below 2^31).
RECURSIVE BToInt(_)
BToInt(a) == IF a = <<>> THEN 0 ELSE a[1] + Base * BToInt(Tail(a))

\* -1, 0 or 1 as a < b, a = b or a > b, comparing from limb i down.
RECURSIVE BCmpAt(_, _, _)
BCmpAt(a, b, i) ==
    IF i = 0 THEN 0
    ELSE IF a[i] < b[i] THEN -1
    ELSE IF a[i] > b[i] THEN 1
    ELSE BCmpAt(a, b, i - 1)

BCmp(a, b) ==
    IF Len(a) < Len(b) THEN -1
    ELSE IF Len(a) > Len(b) THEN 1
    ELSE BCmpAt(a, b, Len(a))

RECURSIVE BAddAt(_, _, _, _)
BAddAt(a, b, i, carry) ==
    IF i > Len(a) /\ i > Len(b)
    THEN (IF carry = 0 THEN <<>> ELSE <<carry>>)
    ELSE <<(Limb(a, i) + Limb(b, i) + carry) % Base>>
             \o BAddAt(a, b, i + 1,
                       (Limb(a, i) + Limb(b, i) + carry) \div Base)

BAdd(a, b) == BAddAt(a, b, 1, 0)

\* a - b for a >= b.
RECURSIVE BSubAt(_, _, _, _)
BSubAt(a, b, i, borrow) ==
    IF i > Len(a) THEN <<>>
    ELSE <<(a[i] - Limb(b, i) - borrow + Base) % Base>>
             \o BSubAt(a, b, i + 1,
                       IF a[i] - Limb(b, i) - borrow < 0 THEN 1 ELSE 0)

BSub(a, b) == BTrim(BSubAt(a, b, 1, 0))

\* a * d for 0 <= d <= 2^16.
RECURSIVE BMulSmallAt(_, _, _, _)
BMulSmallAt(a, d, i, carry) ==
    IF i > Len(a) THEN BFromInt(carry)
    ELSE <<(a[i] * d + carry) % Base>>
             \o BMulSmallAt(a, d, i + 1, (a[i] * d + carry) \div Base)

BMulSmall(a, d) == IF d = 0 THEN <<>> ELSE BMulSmallAt(a, d, 1, 0)

RECURSIVE BMul(_, _)
BMul(a, b) ==
    IF a = <<>> \/ b = <<>> THEN <<>>
    ELSE BAdd(BMulSmall(a, b[1]),
              IF Len(b) = 1 THEN <<>> ELSE <<0>> \o BMul(a, Tail(b)))

\* n zero limbs.
Zeros(n) == [i \in 1..n |-> 0]

\* a * 2^k.
BShl(a, k) ==
    IF a = <<>> THEN <<>>
    ELSE Zeros(k \div LimbBits) \o BMulSmall(a, 2 ^ (k % LimbBits))

\* The quotient of a by d, 0 < d <= 2^16, from limb i down; rem is the
\* remainder of the limbs above i.
RECURSIVE BDivSmallAt(_, _, _, _)
BDivSmallAt(a, d, i, rem) ==
    IF i = 0 THEN <<>>
    ELSE BDivSmallAt(a, d, i - 1, (rem * Base + a[i]) % d)
             \o <<(rem * Base + a[i]) \div d>>

BDivSmall(a, d) == BTrim(BDivSmallAt(a, d, Len(a), 0))

\* The remainder of a by d, 0 < d <= 2^16.
RECURSIVE BModSmallAt(_, _, _, _)
BModSmallAt(a, d, i, rem) ==
    IF i = 0 THEN rem ELSE BModSmallAt(a, d, i - 1, (rem * Base + a[i]) % d)

BModSmall(a, d) == BModSmallAt(a, d, Len(a), 0)

\* floor(a / 2^k).
BShr(a, k) ==
    IF k \div LimbBits >= Len(a) THEN <<>>
    ELSE BDivSmall(SubSeq(a, (k \div LimbBits) + 1, Len(a)),
                   2 ^ (k % LimbBits))

RECURSIVE IntBitLen(_)
IntBitLen(n) == IF n = 0 THEN 0 ELSE 1 + IntBitLen(n \div 2)

\* The number of bits of a.
BBitLen(a) ==
    IF a = <<>> THEN 0
    ELSE LimbBits * (Len(a) - 1) + IntBitLen(a[Len(a)])

\* The number of zero bits at the low end of n > 0.
RECURSIVE IntTz(_)
IntTz(n) == IF n % 2 = 1 THEN 0 ELSE 1 + IntTz(n \div 2)

RECURSIVE BTz(_)
BTz(a) == IF a[1] = 0 THEN LimbBits + BTz(Tail(a)) ELSE IntTz(a[1])

\* [q, r] for the largest q with b * q <= cur, tried from the estimate q
\* down, and r = cur - b * q.
RECURSIVE QFix(_, _, _)
QFix(cur, b, q) ==
    With(BMulSmall(b, q), LAMBDA prod :
        IF BCmp(prod, cur) > 0 THEN QFix(cur, b, q - 1)
        ELSE [q |-> q, r |-> BSub(cur, prod)])

\* The quotient digit floor(cur / b) and what is left, for cur < b * Base,
\* where the top limb of b is at least Base / 2.
QDigit(cur, b) ==
    IF BCmp(cur, b) < 0 THEN [q |-> 0, r |-> cur]
    ELSE QFix(cur, b,
             LET top == IF Len(cur) > Len(b)
                        THEN cur[Len(b) + 1] * Base + cur[Len(b)]
                        ELSE cur[Len(b)]
                 est == top \div b[Len(b)]
             IN IF est > Base - 1 THEN Base - 1 ELSE est)

\* Long division of the limbs i..1 of a by b with rem carried in; gives
\* [q, r].
RECURSIVE BLongDiv(_, _, _, _)
BLongDiv(a, b, i, rem) ==
    IF i = 0 THEN [q |-> <<>>, r |-> rem]
    ELSE With(QDigit(BTrim(<<a[i]>> \o rem), b), LAMBDA d :
         With(BLongDiv(a, b, i - 1, d.r),
              LAMBDA rest : [q |-> rest.q \o <<d.q>>, r |-> rest.r]))

\* [q, r] with a = q * b + r' and r = <<>> exactly when b divides a
\* (r is the remainder scaled by a power of two), for b # <<>>.
BDivMod(a, b) ==
    IF Len(b) = 1
    THEN [q |-> BDivSmall(a, b[1]), r |-> BFromInt(BModSmall(a, b[1]))]
    ELSE With(LimbBits - IntBitLen(b[Len(b)]), LAMBDA sh :
         With(BShl(a, sh), LAMBDA n :
         With(BLongDiv(n, BShl(b, sh), Len(n), <<>>),
              LAMBDA qr : [q |-> BTrim(qr.q), r |-> qr.r])))

\* floor(sqrt(n)) by Newton's iteration from an estimate x >= sqrt(n).
RECURSIVE BSqrtFrom(_, _)
BSqrtFrom(n, x) ==
    With(BDivSmall(BAdd(x, BDivMod(n, x).q), 2), LAMBDA y :
        IF BCmp(y, x) < 0 THEN BSqrtFrom(n, y) ELSE x)

BSqrt(n) ==
    IF n = <<>> THEN <<>>
    ELSE BSqrtFrom(n, BShl(<<1>>, (BBitLen(n) + 1) \div 2))

Zero == [s |-> 0, m |-> <<>>, e |-> 0]

Infinity == [s |-> 2, m |-> <<>>, e |-> 0]

\* s * n * 2^e with n odd or zero, written in the kept form.
Odd(s, n, e) ==
    IF n = <<>> THEN Zero
    ELSE IF n[1] % 2 = 1 THEN [s |-> s, m |-> n, e |-> e]
    ELSE With(BTz(n), LAMBDA tz :
             [s |-> s, m |-> BShr(n, tz), e |-> e + tz])

\* Bit i of n (bit 0 is the lowest).
BitAt(n, i) == (n[(i \div LimbBits) + 1] \div 2 ^ (i % LimbBits)) % 2

\* The bits of n below bit i are all zero.
LowZero(n, i) ==
    /\ \A j \in 1..(i \div LimbBits) : n[j] = 0
    /\ n[(i \div LimbBits) + 1] % 2 ^ (i % LimbBits) = 0

\* n rounded to its top Precision bits, ties to even, for n of k bits more.
RoundTop(n, k) ==
    With(BShr(n, k), LAMBDA q :
        IF BitAt(n, k - 1) = 1 /\ (~LowZero(n, k - 1) \/ q[1] % 2 = 1)
        THEN BAdd(q, <<1>>) ELSE q)

\* The double nearest to s * n * 2^e.
Norm(s, n, e) ==
    With(BBitLen(n) - Precision, LAMBDA k :
        IF k <= 0 THEN Odd(s, n, e) ELSE Odd(s, RoundTop(n, k), e + k))

\* The integer i as a number.
Num(i) ==
    IF i = 0 THEN Zero
    ELSE Norm(IF i < 0 THEN -1 ELSE 1, BFromInt(Abs(i)), 0)

RNeg(a) == [s |-> 0 - a.s, m |-> a.m, e |-> a.e]

\* -1, 0 or 1 as |a| < |b|, |a| = |b| or |a| > |b|, for non-zero a, b.
MagCmp(a, b) ==
    IF BBitLen(a.m) + a.e < BBitLen(b.m) + b.e THEN -1
    ELSE IF BBitLen(a.m) + a.e > BBitLen(b.m) + b.e THEN 1
    ELSE IF a.e >= b.e THEN BCmp(BShl(a.m, a.e - b.e), b.m)
    ELSE BCmp(a.m, BShl(b.m, b.e - a.e))

\* a + b for magnitudes brought to the common exponent e.
AddAligned(sa, x, sb, y, e) ==
    IF sa = sb THEN Norm(sa, BAdd(x, y), e)
    ELSE IF BCmp(x, y) = 0 THEN Zero
    ELSE IF BCmp(x, y) > 0 THEN Norm(sa, BSub(x, y), e)
    ELSE Norm(sb, BSub(y, x), e)

RAdd(a, b) ==
    IF a.s = 0 THEN b
    ELSE IF b.s = 0 THEN a
    ELSE IF a.e >= b.e
         THEN AddAligned(a.s, BShl(a.m, a.e - b.e), b.s, b.m, b.e)
         ELSE AddAligned(a.s, a.m, b.s, BShl(b.m, b.e - a.e), a.e)

RSub(a, b) == RAdd(a, RNeg(b))

RMul(a, b) ==
    IF a.s = 0 \/ b.s = 0 THEN Zero
    ELSE Norm(a.s * b.s, BMul(a.m, b.m), a.e + b.e)

\* a / b for b # 0: the quotient to at least 56 bits, with one more bit
\* that tells whether anything is left.
RDiv(a, b) ==
    IF a.s = 0 THEN Zero
    ELSE With(56 + BBitLen(b.m) - BBitLen(a.m), LAMBDA sh :
         With(BDivMod(BShl(a.m, sh), b.m), LAMBDA qr :
             Norm(a.s * b.s,
                  BAdd(BShl(qr.q, 1), IF qr.r = <<>> THEN <<>> ELSE <<1>>),
                  a.e - b.e - sh - 1)))

\* The number n / d (d # 0) as the division of two integers gives it.
Rat(n, d) == RDiv(Num(n), Num(d))

\* a < b; Infinity is above every other number.
RLt(a, b) ==
    IF a.s = 2 THEN FALSE
    ELSE IF b.s = 2 THEN TRUE
    ELSE IF a.s # b.s THEN a.s < b.s
    ELSE IF a.s = 0 THEN FALSE
    ELSE IF a.s = 1 THEN MagCmp(a, b) < 0
    ELSE MagCmp(a, b) > 0

RLe(a, b) == ~RLt(b, a)

RAbs(a) == [s |-> Abs(a.s), m |-> a.m, e |-> a.e]

RMin(a, b) == IF RLt(b, a) THEN b ELSE a

RMax(a, b) == IF RLt(a, b) THEN b ELSE a

\* JavaScript's a % m for an integer m > 0: exact, with the sign of a.
RRem(a, m) ==
    IF a.s = 0 THEN Zero
    ELSE IF MagCmp(a, Num(m)) < 0 THEN a
    ELSE IF a.e >= 0
         THEN With(BShl(a.m, a.e), LAMBDA n :
                  Norm(a.s, BSub(n, BMul(BDivMod(n, BFromInt(m)).q,
                                         BFromInt(m))), 0))
         ELSE With(BShl(BFromInt(m), 0 - a.e), LAMBDA d :
                  Norm(a.s, BSub(a.m, BMul(BDivMod(a.m, d).q, d)), a.e))

\* Math.sqrt(a) for a >= 0: the root of the magnitude brought to an even
\* exponent and 110 or 111 bits, with one more bit that tells whether the
\* root is inexact.
RSqrt(a) ==
    IF a.s = 0 THEN Zero
    ELSE With(110 - BBitLen(a.m) + ((a.e + BBitLen(a.m)) % 2), LAMBDA sh :
         With(BShl(a.m, sh), LAMBDA n :
         With(BSqrt(n), LAMBDA r :
             Norm(1,
                  BAdd(BShl(r, 1),
                       IF BMul(r, r) = n THEN <<>> ELSE <<1>>),
                  ((a.e - sh) \div 2) - 1))))

\* Math.round(a) as an integer: floor(a + 1/2).
Round(a) ==
    IF a.s = 0 THEN 0
    ELSE IF a.e >= 0 THEN a.s * BToInt(BShl(a.m, a.e))
    ELSE With(BShl(<<1>>, (0 - a.e) - 1), LAMBDA half :
             IF a.s = 1
             THEN BToInt(BShr(BAdd(a.m, half), 0 - a.e))
             ELSE IF BCmp(a.m, half) <= 0 THEN 0
             ELSE 0 - BToInt(BShr(BAdd(BSub(a.m, half),
                                       BSub(BShl(<<1>>, 0 - a.e), <<1>>)),
                                  0 - a.e)))


---------------------------------------------------------------------------
(* Palettes *)

Unknown == "unknown"

ColorLabel == {"skyblue", "yellow", "orange", "red", "purple", Unknown}

TARGET_COLORS ==
    << [label |-> "red", h |-> 0],
       [label |-> "orange", h |-> 25],
       [label |-> "yellow", h |-> 50],
       [label |-> "skyblue", h |-> 195],
       [label |-> "purple", h |-> 280] >>

TARGET_COLORS_part000 ==
    << [label |-> "red", h |-> 0],
       [label |-> "orange", h |-> 25],
       [label |-> "yellow", h |-> 50],
       [label |-> "skyblue", h |-> 175],
       [label |-> "purple", h |-> 210],
       [label |-> "purple", h |-> 250],
       [label |-> "purple", h |-> 290] >>

---------------------------------------------------------------------------
(* RGB to HSV *)

\* Variant: a negative hue is not wrapped by adding 360.
rgbToHsv_noWrap(r0, g0, b0) ==
    With(RDiv(r0, Num(255)), LAMBDA r :
    With(RDiv(g0, Num(255)), LAMBDA g :
    With(RDiv(b0, Num(255)), LAMBDA b :
    With(RMax(RMax(r, g), b), LAMBDA max :
    With(RMin(RMin(r, g), b), LAMBDA min :
    With(RSub(max, min), LAMBDA diff :
    With(IF diff = Num(0) THEN Num(0)
         ELSE IF max = r
              THEN RMul(Num(60), RRem(RDiv(RSub(g, b), diff), 6))
         ELSE IF max = g
              THEN RMul(Num(60), RAdd(RDiv(RSub(b, r), diff), Num(2)))
         ELSE RMul(Num(60), RAdd(RDiv(RSub(r, g), diff), Num(4))),
         LAMBDA h1 :
        [h |-> h1,
         s |-> RMul(IF max = Num(0) THEN Num(0) ELSE RDiv(diff, max),
                    Num(100)),
         v |-> RMul(max, Num(100))])))))))

\* Variant: the red sector takes (b - g) instead of (g - b).
rgbToHsv_swapped(r0, g0, b0) ==
    With(RDiv(r0, Num(255)), LAMBDA r :
    With(RDiv(g0, Num(255)), LAMBDA g :
    With(RDiv(b0, Num(255)), LAMBDA b :
    With(RMax(RMax(r, g), b), LAMBDA max :
    With(RMin(RMin(r, g), b), LAMBDA min :
    With(RSub(max, min), LAMBDA diff :
    With(IF diff = Num(0) THEN Num(0)
         ELSE IF max = r
              THEN RMul(Num(60), RRem(RDiv(RSub(b, g), diff), 6))
         ELSE IF max = g
              THEN RMul(Num(60), RAdd(RDiv(RSub(b, r), diff), Num(2)))
         ELSE RMul(Num(60), RAdd(RDiv(RSub(r, g), diff), Num(4))),
         LAMBDA h1 :
        [h |-> IF RLt(h1, Num(0)) THEN RAdd(h1, Num(360)) ELSE h1,
         s |-> RMul(IF max = Num(0) THEN Num(0) ELSE RDiv(diff, max),
                    Num(100)),
         v |-> RMul(max, Num(100))])))))))

\* r, g, b are numbers (integers for sampled means, fractions for centroids).
rgbToHsv(r0, g0, b0) ==
    With(RDiv(r0, Num(255)), LAMBDA r :
    With(RDiv(g0, Num(255)), LAMBDA g :
    With(RDiv(b0, Num(255)), LAMBDA b :
    With(RMax(RMax(r, g), b), LAMBDA max :
    With(RMin(RMin(r, g), b), LAMBDA min :
    With(RSub(max, min), LAMBDA diff :
    With(IF diff = Num(0) THEN Num(0)
         ELSE IF max = r
              THEN RMul(Num(60), RRem(RDiv(RSub(g, b), diff), 6))
         ELSE IF max = g
              THEN RMul(Num(60), RAdd(RDiv(RSub(b, r), diff), Num(2)))
         ELSE RMul(Num(60), RAdd(RDiv(RSub(r, g), diff), Num(4))),
         LAMBDA h1 :
        [h |-> IF RLt(h1, Num(0)) THEN RAdd(h1, Num(360)) ELSE h1,
         s |-> RMul(IF max = Num(0) THEN Num(0) ELSE RDiv(diff, max),
                    Num(100)),
         v |-> RMul(max, Num(100))])))))))

rgbToHsv_part000(r0, g0, b0) ==
    With(RDiv(r0, Num(255)), LAMBDA r :
    With(RDiv(g0, Num(255)), LAMBDA g :
    With(RDiv(b0, Num(255)), LAMBDA b :
    With(RMax(RMax(r, g), b), LAMBDA max :
    With(RMin(RMin(r, g), b), LAMBDA min :
    With(RSub(max, min), LAMBDA diff :
    With(IF diff = Num(0) THEN Num(0)
         ELSE IF max = r
              THEN RMul(Num(60), RRem(RDiv(RSub(g, b), diff), 6))
         ELSE IF max = g
              THEN RMul(Num(60), RAdd(RDiv(RSub(b, r), diff), Num(2)))
         ELSE RMul(Num(60), RAdd(RDiv(RSub(r, g), diff), Num(4))),
         LAMBDA h1 :
        [h |-> IF RLt(h1, Num(0)) THEN RAdd(h1, Num(360)) ELSE h1,
         s |-> RMul(IF max = Num(0) THEN Num(0) ELSE RDiv(diff, max),
                    Num(100)),
         v |-> RMul(max, Num(100))])))))))

---------------------------------------------------------------------------
(* Classification *)

\* Variant: the hue difference taken without Math.abs.
targetDist_noAbs(h, target) ==
    With(RSub(h, Num(target.h)), LAMBDA d0 :
    With(IF RLt(Num(180), d0) THEN RSub(Num(360), d0) ELSE d0, LAMBDA dist :
        IF target.label # "red" THEN dist
        ELSE With(RAbs(RSub(h, Num(360))), LAMBDA e0 :
                 RMin(dist, IF RLt(Num(180), e0) THEN RSub(Num(360), e0)
                            ELSE e0))))

\* The hue distance computed for one palette entry in colorClassifier.ts.
targetDist(h, target) ==
    With(RAbs(RSub(h, Num(target.h))), LAMBDA d0 :
    With(IF RLt(Num(180), d0) THEN RSub(Num(360), d0) ELSE d0, LAMBDA dist :
        IF target.label # "red" THEN dist
        ELSE With(RAbs(RSub(h, Num(360))), LAMBDA e0 :
                 RMin(dist, IF RLt(Num(180), e0) THEN RSub(Num(360), e0)
                            ELSE e0))))

\* Variant: a later entry at equal distance replaces the earlier one.
RECURSIVE closestTarget_lastWins(_, _, _)
closestTarget_lastWins(h, i, acc) ==
    IF i > Len(TARGET_COLORS) THEN acc
    ELSE With(targetDist(h, TARGET_COLORS[i]), LAMBDA dist :
         With(IF RLe(dist, acc.minDistance)
              THEN [minDistance |-> dist,
                    closestLabel |-> TARGET_COLORS[i].label]
              ELSE acc,
              LAMBDA next : closestTarget_lastWins(h, i + 1, next)))

\* The loop over TARGET_COLORS from entry i on; acc is
\* [minDistance, closestLabel].
RECURSIVE closestTarget(_, _, _)
closestTarget(h, i, acc) ==
    IF i > Len(TARGET_COLORS) THEN acc
    ELSE With(targetDist(h, TARGET_COLORS[i]), LAMBDA dist :
         With(IF RLt(dist, acc.minDistance)
              THEN [minDistance |-> dist,
                    closestLabel |-> TARGET_COLORS[i].label]
              ELSE acc,
              LAMBDA next : closestTarget(h, i + 1, next)))

\* Variant: the gate rejects only when both saturation and value are low.
classifyColor_gateAnd(h, s, v) ==
    IF RLt(s, Num(15)) /\ RLt(v, Num(20))
    THEN [label |-> Unknown, confidence |-> Rat(1, 2)]
    ELSE With(closestTarget(h, 1,
                  [minDistance |-> Infinity, closestLabel |-> Unknown]),
              LAMBDA m :
         With(RMax(Num(0), RSub(Num(1), RDiv(m.minDistance, Num(45)))),
              LAMBDA confidence :
             IF RLt(confidence, Rat(2, 5))
             THEN [label |-> Unknown, confidence |-> confidence]
             ELSE [label |-> m.closestLabel, confidence |-> confidence]))

\* Variant: a confidence equal to the floor is rejected as well.
classifyColor_floorInclusive(h, s, v) ==
    IF RLt(s, Num(15)) \/ RLt(v, Num(20))
    THEN [label |-> Unknown, confidence |-> Rat(1, 2)]
    ELSE With(closestTarget(h, 1,
                  [minDistance |-> Infinity, closestLabel |-> Unknown]),
              LAMBDA m :
         With(RMax(Num(0), RSub(Num(1), RDiv(m.minDistance, Num(45)))),
              LAMBDA confidence :
             IF RLe(confidence, Rat(2, 5))
             THEN [label |-> Unknown, confidence |-> confidence]
             ELSE [label |-> m.closestLabel, confidence |-> confidence]))

\* Variant: the achromatic gate reports confidence 0.
classifyColor_gateZero(h, s, v) ==
    IF RLt(s, Num(15)) \/ RLt(v, Num(20))
    THEN [label |-> Unknown, confidence |-> Num(0)]
    ELSE With(closestTarget(h, 1,
                  [minDistance |-> Infinity, closestLabel |-> Unknown]),
              LAMBDA m :
         With(RMax(Num(0), RSub(Num(1), RDiv(m.minDistance, Num(45)))),
              LAMBDA confidence :
             IF RLt(confidence, Rat(2, 5))
             THEN [label |-> Unknown, confidence |-> confidence]
             ELSE [label |-> m.closestLabel, confidence |-> confidence]))

\* Variant: the confidence is not clamped at zero.
classifyColor_noClamp(h, s, v) ==
    IF RLt(s, Num(15)) \/ RLt(v, Num(20))
    THEN [label |-> Unknown, confidence |-> Rat(1, 2)]
    ELSE With(closestTarget(h, 1,
                  [minDistance |-> Infinity, closestLabel |-> Unknown]),
              LAMBDA m :
         With(RSub(Num(1), RDiv(m.minDistance, Num(45))),
              LAMBDA confidence :
             IF RLt(confidence, Rat(2, 5))
             THEN [label |-> Unknown, confidence |-> confidence]
             ELSE [label |-> m.closestLabel, confidence |-> confidence]))

classifyColor(h, s, v) ==
    IF RLt(s, Num(15)) \/ RLt(v, Num(20))
    THEN [label |-> Unknown, confidence |-> Rat(1, 2)]
    ELSE With(closestTarget(h, 1,
                  [minDistance |-> Infinity, closestLabel |-> Unknown]),
              LAMBDA m :
         With(RMax(Num(0), RSub(Num(1), RDiv(m.minDistance, Num(45)))),
              LAMBDA confidence :
             IF RLt(confidence, Rat(2, 5))
             THEN [label |-> Unknown, confidence |-> confidence]
             ELSE [label |-> m.closestLabel, confidence |-> confidence]))

\* The hue distance computed for one palette entry in part_000: the wrap
\* distance to 360 is not folded back when it exceeds 180.
targetDist_part000(h, target) ==
    With(RAbs(RSub(h, Num(target.h))), LAMBDA d0 :
    With(IF RLt(Num(180), d0) THEN RSub(Num(360), d0) ELSE d0, LAMBDA dist :
        IF target.label # "red" THEN dist
        ELSE RMin(dist, RAbs(RSub(h, Num(360))))))

RECURSIVE closestTarget_part000(_, _, _)
closestTarget_part000(h, i, acc) ==
    IF i > Len(TARGET_COLORS_part000) THEN acc
    ELSE With(targetDist_part000(h, TARGET_COLORS_part000[i]), LAMBDA dist :
         With(IF RLt(dist, acc.minDistance)
              THEN [minDistance |-> dist,
                    closestLabel |-> TARGET_COLORS_part000[i].label]
              ELSE acc,
              LAMBDA next : closestTarget_part000(h, i + 1, next)))

classifyColor_part000(h, s, v) ==
    IF RLt(s, Num(8)) \/ RLt(v, Num(15))
    THEN [label |-> Unknown, confidence |-> Rat(1, 2)]
    ELSE With(closestTarget_part000(h, 1,
                  [minDistance |-> Infinity, closestLabel |-> Unknown]),
              LAMBDA m :
         With(RMax(Num(0), RSub(Num(1), RDiv(m.minDistance, Num(60)))),
              LAMBDA confidence :
             [label |-> m.closestLabel, confidence |-> confidence]))

\* Variant: a later entry at equal distance replaces the earlier one.
RECURSIVE forceClosest_lastWins(_, _, _)
forceClosest_lastWins(h, i, acc) ==
    IF i > Len(TARGET_COLORS_part000) THEN acc
    ELSE With(targetDist_part000(h, TARGET_COLORS_part000[i]), LAMBDA dist :
         With(IF RLe(dist, acc.minDistance)
              THEN [minDistance |-> dist,
                    closestLabel |-> TARGET_COLORS_part000[i].label]
              ELSE acc,
              LAMBDA next : forceClosest_lastWins(h, i + 1, next)))

\* forceClassifyColor has its own copy of the search loop.
RECURSIVE forceClosest(_, _, _)
forceClosest(h, i, acc) ==
    IF i > Len(TARGET_COLORS_part000) THEN acc
    ELSE With(RAbs(RSub(h, Num(TARGET_COLORS_part000[i].h))), LAMBDA d0 :
         With(IF RLt(Num(180), d0) THEN RSub(Num(360), d0) ELSE d0,
              LAMBDA d1 :
         With(IF TARGET_COLORS_part000[i].label = "red"
              THEN RMin(d1, RAbs(RSub(h, Num(360)))) ELSE d1,
              LAMBDA dist :
         With(IF RLt(dist, acc.minDistance)
              THEN [minDistance |-> dist,
                    closestLabel |-> TARGET_COLORS_part000[i].label]
              ELSE acc,
              LAMBDA next : forceClosest(h, i + 1, next)))))

\* Variant: matches farther than the confidence radius are rejected.
forceClassifyColor_radius(h) ==
    With(forceClosest(h, 1,
             [minDistance |-> Infinity, closestLabel |-> Unknown]),
         LAMBDA m :
        IF RLt(Num(60), m.minDistance) THEN Unknown ELSE m.closestLabel)

forceClassifyColor(h) ==
    forceClosest(h, 1,
        [minDistance |-> Infinity, closestLabel |-> Unknown]).closestLabel

---------------------------------------------------------------------------
(* Image buffers and region sampling *)

\* ImageData.data[idx] ?? 0: an index outside the array reads as undefined.
DataAt(imageData, idx) ==
    IF idx \in DOMAIN imageData.data THEN imageData.data[idx] ELSE 0

\* The inner loop "for (px = ...; px < x + width && px < imgWidth; px += step)"
\* from px on: the coordinates it visits, in order.
RECURSIVE rowCoords(_, _, _, _, _, _)
rowCoords(imageData, x, width, step, px, py) ==
    IF px < x + width /\ px < imageData.width
    THEN <<[px |-> px, py |-> py]>>
             \o rowCoords(imageData, x, width, step, px + step, py)
    ELSE <<>>

\* The outer loop "for (py = ...; py < y + height && py < imageData.height;
\* py += step)" from py on.
RECURSIVE regionCoords(_, _, _, _, _, _, _)
regionCoords(imageData, x, y, width, height, step, py) ==
    IF py < y + height /\ py < imageData.height
    THEN rowCoords(imageData, x, width, step, x, py)
             \o regionCoords(imageData, x, y, width, height, step, py + step)
    ELSE <<>>

\* Variant: the buffer indexed as 3 bytes per pixel.
pixelIndex_rgb(imageData, c) == (c.py * imageData.width + c.px) * 3

\* idx = (py * imgWidth + px) * 4
pixelIndex(imageData, c) == (c.py * imageData.width + c.px) * 4

\* The three channels read at one visited coordinate.
pixelAt(imageData, c) ==
    LET idx == pixelIndex(imageData, c)
    IN << DataAt(imageData, idx), DataAt(imageData, idx + 1),
          DataAt(imageData, idx + 2) >>

RECURSIVE sumChannel(_, _, _, _)
sumChannel(imageData, coords, ch, i) ==
    IF i > Len(coords) THEN 0
    ELSE pixelAt(imageData, coords[i])[ch]
             + sumChannel(imageData, coords, ch, i + 1)

\* Variant: the result for an empty sample carries the gate's confidence.
emptyResult_half ==
    [label |-> Unknown, confidence |-> Rat(1, 2),
     rgb |-> [r |-> 0, g |-> 0, b |-> 0],
     hsv |-> [h |-> Num(0), s |-> Num(0), v |-> Num(0)]]

emptyResult ==
    [label |-> Unknown, confidence |-> Num(0),
     rgb |-> [r |-> 0, g |-> 0, b |-> 0],
     hsv |-> [h |-> Num(0), s |-> Num(0), v |-> Num(0)]]

analyzeRegionColor(imageData, x, y, width, height) ==
    With(regionCoords(imageData, x, y, width, height, 2, y), LAMBDA coords :
        IF Len(coords) = 0 THEN emptyResult
        ELSE With(Round(Rat(sumChannel(imageData, coords, 1, 1), Len(coords))),
                  LAMBDA r :
             With(Round(Rat(sumChannel(imageData, coords, 2, 1), Len(coords))),
                  LAMBDA g :
             With(Round(Rat(sumChannel(imageData, coords, 3, 1), Len(coords))),
                  LAMBDA b :
             With(rgbToHsv(Num(r), Num(g), Num(b)), LAMBDA hsv :
             With(classifyColor(hsv.h, hsv.s, hsv.v), LAMBDA c :
                 [label |-> c.label, confidence |-> c.confidence,
                  rgb |-> [r |-> r, g |-> g, b |-> b], hsv |-> hsv]))))))

analyzeRegionColor_part000(imageData, x, y, width, height) ==
    With(regionCoords(imageData, x, y, width, height, 2, y), LAMBDA coords :
        IF Len(coords) = 0 THEN emptyResult
        ELSE With(Round(Rat(sumChannel(imageData, coords, 1, 1), Len(coords))),
                  LAMBDA r :
             With(Round(Rat(sumChannel(imageData, coords, 2, 1), Len(coords))),
                  LAMBDA g :
             With(Round(Rat(sumChannel(imageData, coords, 3, 1), Len(coords))),
                  LAMBDA b :
             With(rgbToHsv_part000(Num(r), Num(g), Num(b)), LAMBDA hsv :
             With(classifyColor_part000(hsv.h, hsv.s, hsv.v), LAMBDA c :
                 [label |-> c.label, confidence |-> c.confidence,
                  rgb |-> [r |-> r, g |-> g, b |-> b], hsv |-> hsv]))))))

---------------------------------------------------------------------------
(* Dominant colours: k-means over the stride-3 population *)

\* The pixels pushed by the sampling loop of extractDominantColors; channel
\* values become numbers, as centroids are means of them.
RECURSIVE pixelsOf(_, _, _)
pixelsOf(imageData, coords, i) ==
    IF i > Len(coords) THEN <<>>
    ELSE With(pixelAt(imageData, coords[i]), LAMBDA p :
             <<<<Num(p[1]), Num(p[2]), Num(p[3])>>>>
                 \o pixelsOf(imageData, coords, i + 1))

\* Variant: the draw is tested for truthiness instead of the pixel, so a
\* draw of index 0 pushes nothing.
RECURSIVE initCentroids_skipZero(_, _, _, _)
initCentroids_skipZero(pixels, k, rand, i) ==
    IF i > k THEN <<>>
    ELSE (IF rand[i] = 0 THEN <<>> ELSE <<pixels[rand[i] + 1]>>)
             \o initCentroids_skipZero(pixels, k, rand, i + 1)

\* The first loop of kMeansClustering: rand[i] is the value of
\* Math.floor(Math.random() * pixels.length) in round i.
RECURSIVE initCentroids(_, _, _, _)
initCentroids(pixels, k, rand, i) ==
    IF i > k THEN <<>>
    ELSE <<pixels[rand[i] + 1]>> \o initCentroids(pixels, k, rand, i + 1)

\* The while loop that pads a short centroid list with its first element.
RECURSIVE fillCentroids(_, _)
fillCentroids(cs, k) ==
    IF Len(cs) < k /\ Len(cs) > 0
    THEN fillCentroids(Append(cs, cs[1]), k)
    ELSE cs

\* The argument of Math.sqrt in the distance d between p and a centroid:
\* each difference is squared and the squares are added left to right.
sqDist(p, centroid) ==
    With(RSub(p[1], centroid[1]), LAMBDA dr :
    With(RSub(p[2], centroid[2]), LAMBDA dg :
    With(RSub(p[3], centroid[3]), LAMBDA db :
        RAdd(RAdd(RMul(dr, dr), RMul(dg, dg)), RMul(db, db)))))

\* a * 2^k.
Scale(a, k) == IF a.s = 0 THEN a ELSE [s |-> a.s, m |-> a.m, e |-> a.e + k]

\* Math.sqrt(a) < Math.sqrt(b) for a, b >= 0.  The rounded root never
\* decreases with its argument, and when b exceeds a by a 2^-50 part of a
\* or more the two rounded roots differ; the roots are taken only for
\* arguments closer than that.
sqrtLess(a, b) ==
    IF ~RLt(a, b) THEN FALSE
    ELSE IF b = Infinity THEN TRUE
    ELSE IF RLe(a, Scale(RSub(b, a), 50)) THEN TRUE
    ELSE RLt(RSqrt(a), RSqrt(b))

\* Variant: a centroid at equal distance replaces the earlier one.
RECURSIVE nearest_lastWins(_, _, _, _, _)
nearest_lastWins(p, cs, k, i, acc) ==
    IF i > k THEN acc
    ELSE IF i > Len(cs) THEN nearest_lastWins(p, cs, k, i + 1, acc)
    ELSE With(sqDist(p, cs[i]), LAMBDA d :
         With(IF ~sqrtLess(acc.minDist, d)
              THEN [minDist |-> d, best |-> i - 1]
              ELSE acc,
              LAMBDA next : nearest_lastWins(p, cs, k, i + 1, next)))

\* The loop "for (i = 0; i < k; i++)" that finds the nearest centroid of p,
\* from 1-based position i on; acc is [minDist, best] with best 0-based and
\* minDist kept as the argument of Math.sqrt.
RECURSIVE nearest(_, _, _, _, _)
nearest(p, cs, k, i, acc) ==
    IF i > k THEN acc
    ELSE IF i > Len(cs) THEN nearest(p, cs, k, i + 1, acc)
    ELSE With(sqDist(p, cs[i]), LAMBDA d :
         With(IF sqrtLess(d, acc.minDist)
              THEN [minDist |-> d, best |-> i - 1]
              ELSE acc,
              LAMBDA next : nearest(p, cs, k, i + 1, next)))

\* The 0-based index of the cluster that receives p.
bestOf(p, cs, k) ==
    nearest(p, cs, k, 1, [minDist |-> Infinity, best |-> 0]).best

\* The assignment pass of a round: the cluster index of every pixel, in
\* pixel order, from 1-based position j on.
RECURSIVE assignAll(_, _, _, _)
assignAll(pixels, cs, k, j) ==
    IF j > Len(pixels) THEN <<>>
    ELSE <<bestOf(pixels[j], cs, k)>> \o assignAll(pixels, cs, k, j + 1)

\* clusters[i] after the assignment pass, as the positions of its pixels.
clusterOf(assign, i) == {j \in 1..Len(assign) : assign[j] = i}

\* "let r = 0; for (const p of cluster) r += p[ch]": the running sum acc
\* over the members of the cluster, in pixel order, from position j on.
RECURSIVE sumFrom(_, _, _, _, _)
sumFrom(pixels, members, ch, j, acc) ==
    IF j > Len(pixels) THEN acc
    ELSE With(IF j \in members THEN RAdd(acc, pixels[j][ch]) ELSE acc,
              LAMBDA next : sumFrom(pixels, members, ch, j + 1, next))

sumOver(pixels, members, ch) == sumFrom(pixels, members, ch, 1, Num(0))

\* Variant: the centroid of an empty cluster is dropped instead of kept.
RECURSIVE updateCentroids_dropEmpty(_, _, _, _, _)
updateCentroids_dropEmpty(pixels, assign, cs, k, i) ==
    IF i > Len(cs) THEN <<>>
    ELSE With(clusterOf(assign, i - 1), LAMBDA cluster :
         With(Num(Cardinality(cluster)), LAMBDA len :
             (IF i <= k /\ cluster # {}
                  THEN << << RDiv(sumOver(pixels, cluster, 1), len),
                         RDiv(sumOver(pixels, cluster, 2), len),
                         RDiv(sumOver(pixels, cluster, 3), len) >> >>
                  ELSE <<>>)
                 \o updateCentroids_dropEmpty(pixels, assign, cs, k, i + 1)))

\* The second loop of a round, from 1-based position i on: a non-empty
\* cluster's centroid becomes the mean of its pixels, any other stays.
RECURSIVE updateCentroids(_, _, _, _, _)
updateCentroids(pixels, assign, cs, k, i) ==
    IF i > Len(cs) THEN <<>>
    ELSE With(clusterOf(assign, i - 1), LAMBDA cluster :
         With(Num(Cardinality(cluster)), LAMBDA len :
             << IF i <= k /\ cluster # {}
                    THEN << RDiv(sumOver(pixels, cluster, 1), len),
                         RDiv(sumOver(pixels, cluster, 2), len),
                         RDiv(sumOver(pixels, cluster, 3), len) >>
                    ELSE cs[i] >>
                 \o updateCentroids(pixels, assign, cs, k, i + 1)))

\* One round: assign every pixel, then recompute the non-empty clusters.
kMeansRound(pixels, cs, k) ==
    With(assignAll(pixels, cs, k, 1), LAMBDA assign :
        updateCentroids(pixels, assign, cs, k, 1))

RECURSIVE kMeansIterate(_, _, _, _)
kMeansIterate(pixels, cs, k, iterations) ==
    IF iterations <= 0 THEN cs
    ELSE kMeansIterate(pixels, kMeansRound(pixels, cs, k), k, iterations - 1)

\* The centroid list at the start of the iteration loop and after each of
\* its rounds, in order.  A round is a function of the list it starts from,
\* so once a round leaves the list as it was the remaining rounds do too.
RECURSIVE kMeansTrace(_, _, _, _)
kMeansTrace(pixels, cs, k, iterations) ==
    IF iterations <= 0 THEN <<cs>>
    ELSE With(kMeansRound(pixels, cs, k), LAMBDA next :
             <<cs>> \o (IF next = cs
                        THEN [r \in 1..iterations |-> cs]
                        ELSE kMeansTrace(pixels, next, k, iterations - 1)))

\* The centroid lists one call of kMeansClustering goes through; empty when
\* the call returns at once for an empty population.
kMeansRounds(pixels, k, iterations, rand) ==
    IF Len(pixels) = 0 THEN <<>>
    ELSE kMeansTrace(pixels,
             fillCentroids(initCentroids(pixels, k, rand, 1), k),
             k, iterations)

kMeansRounds_part000(pixels, k, iterations, rand) ==
    IF Len(pixels) = 0 THEN <<>>
    ELSE kMeansTrace(pixels,
             fillCentroids(initCentroids(pixels, k, rand, 1), k),
             k, iterations)

\* "return centroids": the list after the last round, or the empty list of
\* the early return.
finalCentroids(rs) == IF rs = <<>> THEN <<>> ELSE rs[Len(rs)]

kMeansClustering(pixels, k, iterations, rand) ==
    finalCentroids(kMeansRounds(pixels, k, iterations, rand))

kMeansClustering_part000(pixels, k, iterations, rand) ==
    finalCentroids(kMeansRounds_part000(pixels, k, iterations, rand))

\* centroids.map(...): the ColorResult of one centroid.
centroidResult(c) ==
    With(rgbToHsv(c[1], c[2], c[3]), LAMBDA hsv :
    With(classifyColor(hsv.h, hsv.s, hsv.v), LAMBDA cl :
        [label |-> cl.label, confidence |-> cl.confidence,
         rgb |-> [r |-> Round(c[1]), g |-> Round(c[2]), b |-> Round(c[3])],
         hsv |-> hsv]))

centroidResult_part000(c) ==
    With(rgbToHsv_part000(c[1], c[2], c[3]), LAMBDA hsv :
    With(classifyColor_part000(hsv.h, hsv.s, hsv.v), LAMBDA cl :
        [label |-> cl.label, confidence |-> cl.confidence,
         rgb |-> [r |-> Round(c[1]), g |-> Round(c[2]), b |-> Round(c[3])],
         hsv |-> hsv]))

\* Variant: the filter tests the confidence instead of the label.
notUnknown_byConfidence(c) == RLe(Rat(2, 5), c.confidence)

\* .filter((c) => c.label !== unknown)
notUnknown(c) == c.label # Unknown

\* The population sampled by extractDominantColors (step = 3).
populationCoords(imageData, x, y, width, height) ==
    regionCoords(imageData, x, y, width, height, 3, y)

\* Variant: the unknown results are kept.
classifyCentroids_noFilter(cs) ==
    SelectSeq([i \in 1..Len(cs) |-> centroidResult(cs[i])],
              LAMBDA c : TRUE)

\* centroids.map(...).filter(...)
classifyCentroids(cs) ==
    SelectSeq([i \in 1..Len(cs) |-> centroidResult(cs[i])], notUnknown)

classifyCentroids_part000(cs) ==
    SelectSeq([i \in 1..Len(cs) |-> centroidResult_part000(cs[i])],
              notUnknown)

\* Variant: the fallback result goes through the unknown filter as well.
extractDominantColors_filterFallback(imageData, x, y, width, height, k, rand) ==
    With(pixelsOf(imageData,
             populationCoords(imageData, x, y, width, height), 1),
         LAMBDA pixels :
        IF Len(pixels) < k
        THEN [result |->
                  SelectSeq(<<analyzeRegionColor(imageData, x, y, width,
                                                 height)>>, notUnknown),
              kmeansRan |-> FALSE, centroids |-> <<>>, rounds |-> <<>>]
        ELSE With(kMeansRounds(pixels, k, 10, rand), LAMBDA rs :
                 [result |-> classifyCentroids(finalCentroids(rs)),
                  kmeansRan |-> TRUE, centroids |-> finalCentroids(rs),
                  rounds |-> rs]))

\* One call of extractDominantColors: result is the returned sequence;
\* kmeansRan, centroids and rounds record whether kMeansClustering was
\* called, what it returned and the centroid lists it went through.
extractDominantColors(imageData, x, y, width, height, k, rand) ==
    With(pixelsOf(imageData,
             populationCoords(imageData, x, y, width, height), 1),
         LAMBDA pixels :
        IF Len(pixels) < k
        THEN [result |->
                  <<analyzeRegionColor(imageData, x, y, width, height)>>,
              kmeansRan |-> FALSE, centroids |-> <<>>, rounds |-> <<>>]
        ELSE With(kMeansRounds(pixels, k, 10, rand), LAMBDA rs :
                 [result |-> classifyCentroids(finalCentroids(rs)),
                  kmeansRan |-> TRUE, centroids |-> finalCentroids(rs),
                  rounds |-> rs]))

extractDominantColors_part000(imageData, x, y, width, height, k, rand) ==
    With(pixelsOf(imageData,
             populationCoords(imageData, x, y, width, height), 1),
         LAMBDA pixels :
        IF Len(pixels) < k
        THEN [result |->
                  <<analyzeRegionColor_part000(imageData, x, y, width, height)>>,
              kmeansRan |-> FALSE, centroids |-> <<>>, rounds |-> <<>>]
        ELSE With(kMeansRounds_part000(pixels, k, 10, rand), LAMBDA rs :
                 [result |-> classifyCentroids_part000(finalCentroids(rs)),
                  kmeansRan |-> TRUE, centroids |-> finalCentroids(rs),
                  rounds |-> rs]))

---------------------------------------------------------------------------
(* Inputs *)

\* Hues are the multiples of 1/HueDen from -HueLo to HueHi degrees.
HueDen == 2

HueLo == 20

HueHi == 380

Hues == {Rat(n, HueDen) : n \in (0 - HueLo * HueDen)..(HueHi * HueDen)}

\* Saturation/value pairs on both sides of both gates (15/20 and 8/15).
SatVals ==
    { <<Num(100), Num(100)>>, <<Num(15), Num(20)>>, <<Num(8), Num(15)>>,
      <<Rat(29, 2), Num(100)>>, <<Rat(15, 2), Num(100)>>,
      <<Num(100), Rat(39, 2)>>, <<Num(100), Rat(29, 2)>>,
      <<Num(0), Num(96)>>, <<Num(0), Num(0)>> }

\* Channel values: a grid over 0..255, its ends, and the scenario colours.
ChanStep == 51

Channels ==
    {c \in 0..255 : c % ChanStep = 0}
        \cup {20, 60, 220}

SkyBlue == <<135, 206, 235>>

Crimson == <<220, 20, 60>>

NearWhite == <<245, 245, 245>>

Gold == <<255, 215, 0>>

Green == <<0, 128, 0>>

\* An RGBA buffer of w x h pixels; pixel (px, py) has colour
\* pal[((px + 2 * py) % Len(pal)) + 1] and alpha 255.
mkImage(w, h, pal) ==
    [width |-> w, height |-> h,
     data |-> [idx \in 0..(4 * w * h - 1) |->
                 LET p == idx \div 4
                     px == p % w
                     py == p \div w
                     col == pal[((px + 2 * py) % Len(pal)) + 1]
                 IN IF idx % 4 = 3 THEN 255 ELSE col[(idx % 4) + 1]]]

Palettes ==
    { <<SkyBlue>>, <<NearWhite>>, <<Crimson, SkyBlue>>,
      <<Gold, NearWhite, Crimson>>, <<Green, Crimson, NearWhite, Gold>> }

SmallW == 4

SmallH == 4

SmallImages == {mkImage(SmallW, SmallH, pal) : pal \in Palettes}

\* The scenario buffer: 10 x 10, every pixel RGB(135, 206, 235).
SkyImage == mkImage(10, 10, <<SkyBlue>>)

Images == SmallImages \cup {SkyImage}

\* Regions around and across the buffer's edges.
RegionMargin == 1

Regions(imageData) ==
    [x : {0 - RegionMargin, 0, imageData.width},
     y : {0 - RegionMargin, 0, imageData.height},
     width : {0 - RegionMargin, 0, 2, imageData.width,
              imageData.width + RegionMargin},
     height : {0, 1, imageData.height, imageData.height + RegionMargin}]

\* Regions given to extractDominantColors: across the left and top edges,
\* beyond the right edge, one pixel wide, and covering the buffer.
ExtractRegions(imageData) ==
    [x : {-1, 0, imageData.width},
     y : {-1, 0},
     width : {1, imageData.width + 1},
     height : {1, imageData.height + 1}]

MaxK == 3

\* Outcomes of the k draws of Math.floor(Math.random() * n): every draw
\* yields any index of the population, independently of the others.  A
\* single empty outcome when k-means does not run or draws nothing.
RandOutcomes(n, k) ==
    IF n < k \/ k <= 0 \/ n = 0 THEN {<<>>}
    ELSE [1..k -> 0..(n - 1)]

---------------------------------------------------------------------------
(* Operations *)

\* The variables hold one call: its name, its arguments, its return value,
\* the coordinates its sampling loops visited, whether it ran k-means, the
\* centroids k-means returned and the centroid lists k-means went through
\* (rounds[1] at the start, rounds[r + 1] after round r).
asSet(seq) == {seq[i] : i \in 1..Len(seq)}

\* No message is shown; no timer callback has cleared a shown message.
NoAttempt == [id |-> 0, at |-> 0]

NoClearing == [timer |-> NoAttempt, message |-> NoAttempt, at |-> 0]

Init ==
    /\ call = "none"
    /\ args = <<>>
    /\ ret = <<>>
    /\ sampled = {}
    /\ centroids = <<>>
    /\ kmeansRan = FALSE
    /\ rounds = <<>>
    /\ input1 = "" /\ input2 = "" /\ input3 = ""
    /\ isSolved = FALSE
    /\ errorMsg = ""
    /\ timers = {}
    /\ now = 0
    /\ attempts = 0
    /\ shown = NoAttempt
    /\ cleared = NoClearing

CallRgbToHsv ==
    /\ call = "none"
    /\ UNCHANGED quizVars
    /\ \E r \in Channels, g \in Channels, b \in Channels :
        /\ call' = "rgbToHsv"
        /\ args' = [r |-> r, g |-> g, b |-> b]
        /\ ret' = rgbToHsv(Num(r), Num(g), Num(b))
        /\ sampled' = {}
        /\ centroids' = <<>>
        /\ kmeansRan' = FALSE
        /\ rounds' = <<>>

CallClassifyColor ==
    /\ call = "none"
    /\ UNCHANGED quizVars
    /\ \E h \in Hues, sv \in SatVals :
        /\ call' = "classifyColor"
        /\ args' = [h |-> h, s |-> sv[1], v |-> sv[2]]
        /\ ret' = classifyColor(h, sv[1], sv[2])
        /\ sampled' = {}
        /\ centroids' = <<>>
        /\ kmeansRan' = FALSE
        /\ rounds' = <<>>

CallClassifyColor_part000 ==
    /\ call = "none"
    /\ UNCHANGED quizVars
    /\ \E h \in Hues, sv \in SatVals :
        /\ call' = "classifyColor_part000"
        /\ args' = [h |-> h, s |-> sv[1], v |-> sv[2]]
        /\ ret' = classifyColor_part000(h, sv[1], sv[2])
        /\ sampled' = {}
        /\ centroids' = <<>>
        /\ kmeansRan' = FALSE
        /\ rounds' = <<>>

CallForceClassifyColor ==
    /\ call = "none"
    /\ UNCHANGED quizVars
    /\ \E h \in Hues :
        /\ call' = "forceClassifyColor"
        /\ args' = [h |-> h]
        /\ ret' = forceClassifyColor(h)
        /\ sampled' = {}
        /\ centroids' = <<>>
        /\ kmeansRan' = FALSE
        /\ rounds' = <<>>

CallAnalyzeRegionColor ==
    /\ call = "none"
    /\ UNCHANGED quizVars
    /\ \E imageData \in Images :
        \E rg \in Regions(imageData) :
        /\ call' = "analyzeRegionColor"
            /\ args' = [imageData |-> imageData, x |-> rg.x, y |-> rg.y,
                        width |-> rg.width, height |-> rg.height]
            /\ ret' = analyzeRegionColor(imageData, rg.x, rg.y, rg.width,
                                         rg.height)
            /\ sampled' = asSet(regionCoords(imageData, rg.x, rg.y, rg.width,
                                             rg.height, 2, rg.y))
            /\ centroids' = <<>>
            /\ kmeansRan' = FALSE
            /\ rounds' = <<>>

CallAnalyzeRegionColor_part000 ==
    /\ call = "none"
    /\ UNCHANGED quizVars
    /\ \E imageData \in Images :
        \E rg \in Regions(imageData) :
        /\ call' = "analyzeRegionColor_part000"
            /\ args' = [imageData |-> imageData, x |-> rg.x, y |-> rg.y,
                        width |-> rg.width, height |-> rg.height]
            /\ ret' = analyzeRegionColor_part000(imageData, rg.x, rg.y,
                                                 rg.width, rg.height)
            /\ sampled' = asSet(regionCoords(imageData, rg.x, rg.y, rg.width,
                                             rg.height, 2, rg.y))
            /\ centroids' = <<>>
            /\ kmeansRan' = FALSE
            /\ rounds' = <<>>

CallExtractDominantColors ==
    /\ call = "none"
    /\ UNCHANGED quizVars
    /\ \E imageData \in SmallImages, k \in 0..MaxK :
        \E rg \in ExtractRegions(imageData) :
            \E pop \in {populationCoords(imageData, rg.x, rg.y, rg.width,
                                         rg.height)} :
                \E rand \in RandOutcomes(Len(pop), k) :
                    \E run \in {extractDominantColors(imageData, rg.x,
                                    rg.y, rg.width, rg.height, k, rand)} :
                        /\ call' = "extractDominantColors"
                        /\ args' = [imageData |-> imageData, x |-> rg.x,
                                    y |-> rg.y, width |-> rg.width,
                                    height |-> rg.height, k |-> k,
                                    rand |-> rand]
                        /\ ret' = run.result
                        /\ sampled' = asSet(pop) \cup
                               (IF run.kmeansRan THEN {}
                                ELSE asSet(regionCoords(imageData, rg.x,
                                         rg.y, rg.width, rg.height, 2, rg.y)))
                        /\ centroids' = run.centroids
                        /\ kmeansRan' = run.kmeansRan
                        /\ rounds' = run.rounds

CallExtractDominantColors_part000 ==
    /\ call = "none"
    /\ UNCHANGED quizVars
    /\ \E imageData \in SmallImages, k \in 0..MaxK :
        \E rg \in ExtractRegions(imageData) :
            \E pop \in {populationCoords(imageData, rg.x, rg.y, rg.width,
                                         rg.height)} :
                \E rand \in RandOutcomes(Len(pop), k) :
                    \E run \in {extractDominantColors_part000(imageData, rg.x,
                                    rg.y, rg.width, rg.height, k, rand)} :
                        /\ call' = "extractDominantColors_part000"
                        /\ args' = [imageData |-> imageData, x |-> rg.x,
                                    y |-> rg.y, width |-> rg.width,
                                    height |-> rg.height, k |-> k,
                                    rand |-> rand]
                        /\ ret' = run.result
                        /\ sampled' = asSet(pop) \cup
                               (IF run.kmeansRan THEN {}
                                ELSE asSet(regionCoords(imageData, rg.x,
                                         rg.y, rg.width, rg.height, 2, rg.y)))
                        /\ centroids' = run.centroids
                        /\ kmeansRan' = run.kmeansRan
                        /\ rounds' = run.rounds

Next ==
    \/ CallRgbToHsv
    \/ CallClassifyColor
    \/ CallClassifyColor_part000
    \/ CallForceClassifyColor
    \/ CallAnalyzeRegionColor
    \/ CallAnalyzeRegionColor_part000
    \/ CallExtractDominantColors
    \/ CallExtractDominantColors_part000

Spec == Init /\ [][Next]_vars

---------------------------------------------------------------------------
(* BlueBoxQuiz: the three-digit lock, its error message and its timers *)

\* The message of a wrong attempt.
WrongMsg == "wrong password"

\* The delay given to setTimeout.
TimeoutMs == 2000

\* The clock advances in steps of TickMs up to MaxTime.
TickMs == 500

MaxTime == 4000

\* Wrong attempts are counted up to MaxAttempts.
MaxAttempts == 3

Digits == {"0", "1", "2", "3", "4", "5", "6", "7", "8", "9"}

\* value.replace(/[^0-9]/g, "").slice(0, 1), for a value given as the
\* sequence of its characters.
firstDigit(value) ==
    LET ds == SelectSeq(value, LAMBDA c : c \in Digits)
    IN IF ds = <<>> THEN "" ELSE ds[1]

\* What the user leaves in an input box.
TypedValues ==
    { <<>>, <<"3">>, <<"5">>, <<"8">>, <<"a", "5">>, <<"8", "3">> }

\* handleInput stores the first digit of the typed value in the input it
\* was called for, whether or not the quiz is solved.
handleInput ==
    /\ \E currentInput \in 1..3, value \in TypedValues :
        /\ input1' = IF currentInput = 1 THEN firstDigit(value) ELSE input1
        /\ input2' = IF currentInput = 2 THEN firstDigit(value) ELSE input2
        /\ input3' = IF currentInput = 3 THEN firstDigit(value) ELSE input3
    /\ UNCHANGED <<isSolved, errorMsg, timers, now, attempts, shown, cleared>>
    /\ UNCHANGED classifierVars

\* checkAnswer compares the three inputs with 3, 5, 8 and does not read
\* isSolved.  A wrong attempt sets the message and registers a callback due
\* TimeoutMs later; nothing cancels the callbacks registered before.
checkAnswer ==
    /\ IF input1 = "3" /\ input2 = "5" /\ input3 = "8"
       THEN /\ isSolved' = TRUE
            /\ errorMsg' = ""
            /\ shown' = NoAttempt
            /\ UNCHANGED <<timers, attempts>>
       ELSE /\ attempts < MaxAttempts
            /\ errorMsg' = WrongMsg
            /\ timers' = timers \cup {[id |-> attempts + 1, at |-> now,
                                       due |-> now + TimeoutMs]}
            /\ attempts' = attempts + 1
            /\ shown' = [id |-> attempts + 1, at |-> now]
            /\ UNCHANGED isSolved
    /\ UNCHANGED <<input1, input2, input3, now, cleared>>
    /\ UNCHANGED classifierVars

\* The button that calls reset is rendered only once the quiz is solved;
\* while it leaves the page after a reset the refs already hold what reset
\* sets.
reset ==
    /\ isSolved
    /\ isSolved' = FALSE
    /\ input1' = "" /\ input2' = "" /\ input3' = ""
    /\ errorMsg' = ""
    /\ shown' = NoAttempt
    /\ UNCHANGED <<timers, now, attempts, cleared>>
    /\ UNCHANGED classifierVars

\* A callback runs at some time not before its delay has passed, the
\* earliest registered first; it clears whatever message is shown at that
\* moment.
timerCallback ==
    /\ \E t \in timers :
        /\ t.due <= now
        /\ \A u \in timers : t.id <= u.id
        /\ timers' = timers \ {t}
        /\ cleared' = IF errorMsg # ""
                      THEN [timer |-> [id |-> t.id, at |-> t.at],
                            message |-> shown, at |-> now]
                      ELSE cleared
    /\ errorMsg' = ""
    /\ shown' = NoAttempt
    /\ UNCHANGED <<input1, input2, input3, isSolved, now, attempts>>
    /\ UNCHANGED classifierVars

\* Time passes, also while a callback that is due has not run yet.
Tick ==
    /\ now + TickMs <= MaxTime
    /\ now' = now + TickMs
    /\ UNCHANGED <<input1, input2, input3, isSolved, errorMsg, timers,
                   attempts, shown, cleared>>
    /\ UNCHANGED classifierVars

NextQuiz ==
    \/ handleInput
    \/ checkAnswer
    \/ reset
    \/ timerCallback
    \/ Tick

SpecQuiz == Init /\ [][NextQuiz]_vars

---------------------------------------------------------------------------
(* Properties *)

AnalyzeCalls == {"analyzeRegionColor", "analyzeRegionColor_part000"}

ExtractCalls == {"extractDominantColors", "extractDominantColors_part000"}

ClassifyCalls == {"classifyColor", "classifyColor_part000"}

\* The requested rectangle is non-empty and lies inside the buffer.
RegionInside ==
    /\ args.x >= 0 /\ args.y >= 0 /\ args.width > 0 /\ args.height > 0
    /\ args.x + args.width <= args.imageData.width
    /\ args.y + args.height <= args.imageData.height

\* analyzeRegionColor was applied to a region of the 10 x 10 sky-blue buffer.
SkyRegionAnalyzed ==
    /\ call \in AnalyzeCalls
    /\ args.imageData = SkyImage
    /\ RegionInside

\* The saturation and value thresholds of the classifier that was called.
GatePassed ==
    IF call = "classifyColor"
    THEN RLe(Num(15), args.s) /\ RLe(Num(20), args.v)
    ELSE RLe(Num(8), args.s) /\ RLe(Num(15), args.v)

\* C1 (as claimed): a region of the 10 x 10 buffer filled with
\* RGB(135,206,235) is analysed to that exact RGB and the sky-blue label
\* under both palettes of the repository.
C1_SkyBlueUnderEveryPalette ==
    SkyRegionAnalyzed =>
        /\ ret.rgb = [r |-> 135, g |-> 206, b |-> 235]
        /\ ret.label = "skyblue"

\* C1 (amended): the RGB is exactly (135,206,235) under both palettes; the
\* label is sky blue under the palette of colorClassifier.ts and purple
\* under the palette of part_000, whose entry nearest to hue 197.4 is the
\* purple entry at 210.
C1_SkyBluePerPalette ==
    SkyRegionAnalyzed =>
        /\ ret.rgb = [r |-> 135, g |-> 206, b |-> 235]
        /\ ret.hsv.h = Rat(987, 5)
        /\ call = "analyzeRegionColor" => ret.label = "skyblue"
        /\ call = "analyzeRegionColor_part000" => ret.label = "purple"

C1_Witness ==
    /\ call = "analyzeRegionColor_part000"
    /\ args.imageData = SkyImage
    /\ args.x = 0 /\ args.y = 0 /\ args.width = 10 /\ args.height = 10
    /\ Cardinality(sampled) = 25
    /\ ret.label = "purple"

\* C2 (as claimed): analyzeRegionColor and extractDominantColors visit only
\* coordinates inside the buffer, whatever x, y, width and height are, so
\* nothing outside the buffer is counted.
C2_SamplesInsideBuffer ==
    call \in AnalyzeCalls \cup ExtractCalls =>
        \A c \in sampled :
            /\ 0 <= c.px /\ c.px < args.imageData.width
            /\ 0 <= c.py /\ c.py < args.imageData.height

\* C3 (as claimed): for a hue h in [0,360), classifyColor gives the same
\* label and confidence for h and for h + 360.
C3_HuePeriod360 ==
    (call \in ClassifyCalls /\ RLe(Num(0), args.h) /\ RLt(args.h, Num(360)))
        => ret = (IF call = "classifyColor"
                  THEN classifyColor(RAdd(args.h, Num(360)), args.s, args.v)
                  ELSE classifyColor_part000(RAdd(args.h, Num(360)), args.s,
                                             args.v))

\* The number of stride-3 sample points of the call's region.
PopulationSize ==
    Len(populationCoords(args.imageData, args.x, args.y, args.width,
                         args.height))

\* C4: when fewer than k pixels are sampled, extractDominantColors returns
\* exactly one result, the one analyzeRegionColor gives for the same buffer
\* and region, and k-means is not run.
C4_FallbackToMean ==
    (call \in ExtractCalls /\ PopulationSize < args.k) =>
        /\ ~kmeansRan
        /\ Len(ret) = 1
        /\ ret[1] = (IF call = "extractDominantColors"
                     THEN analyzeRegionColor(args.imageData, args.x, args.y,
                                             args.width, args.height)
                     ELSE analyzeRegionColor_part000(args.imageData, args.x,
                              args.y, args.width, args.height))

C4_Witness ==
    /\ call = "extractDominantColors"
    /\ PopulationSize = 2 /\ args.k = 3
    /\ Len(ret) = 1
    /\ ret[1].label = Unknown

\* The label and confidence the called module's classifier gives centroid c.
CentroidClass(c) ==
    IF call = "extractDominantColors"
    THEN With(rgbToHsv(c[1], c[2], c[3]), LAMBDA hsv :
             classifyColor(hsv.h, hsv.s, hsv.v))
    ELSE With(rgbToHsv_part000(c[1], c[2], c[3]), LAMBDA hsv :
             classifyColor_part000(hsv.h, hsv.s, hsv.v))

\* The classes of the centroids of cs, in centroid order, from position i on.
RECURSIVE ClassesFrom(_, _)
ClassesFrom(cs, i) ==
    IF i > Len(cs) THEN <<>>
    ELSE <<CentroidClass(cs[i])>> \o ClassesFrom(cs, i + 1)

\* The positions of the classes in cls that are not unknown.
KnownIn(cls) == {i \in 1..Len(cls) : cls[i].label # Unknown}

\* ret holds the known classes of cls, in order, with the rounded centroids.
ReturnsKnown(cls) ==
    /\ Len(ret) = Cardinality(KnownIn(cls))
    /\ \A j \in 1..Len(ret) :
           \E i \in KnownIn(cls) :
               /\ Cardinality({m \in KnownIn(cls) : m < i}) = j - 1
               /\ ret[j].label = cls[i].label
               /\ ret[j].confidence = cls[i].confidence
               /\ ret[j].rgb = [r |-> Round(centroids[i][1]),
                                g |-> Round(centroids[i][2]),
                                b |-> Round(centroids[i][3])]

\* C5: when at least k pixels are sampled, the returned sequence holds the
\* classifications of exactly the final centroids that are not unknown, in
\* centroid order; it is empty when every centroid is unknown.
C5_KnownCentroidsInOrder ==
    (call \in ExtractCalls /\ PopulationSize >= args.k) =>
        /\ kmeansRan
        /\ With(ClassesFrom(centroids, 1), ReturnsKnown)

C5_Witness ==
    /\ call = "extractDominantColors"
    /\ kmeansRan
    /\ Len(centroids) = 3
    /\ Len(ret) = 2
    /\ CentroidClass(centroids[2]).label = Unknown

\* C6: forceClassifyColor returns one of the five chromatic labels, never
\* unknown, for every hue, the boundary values 0 and 360 included.
C6_ForceNeverUnknown ==
    call = "forceClassifyColor" => ret \in ColorLabel \ {Unknown}

C6_Witness ==
    /\ call = "forceClassifyColor"
    /\ args.h = Num(360)
    /\ ret = "red"

\* C7: in part_000, for every hue and every (s, v) passing the gate
\* (s >= 8 and v >= 15), classifyColor and forceClassifyColor give the
\* same label.
C7_ClassifyAgreesWithForce ==
    (call = "classifyColor_part000" /\ GatePassed) =>
        ret.label = forceClassifyColor(args.h)

C7_Witness ==
    /\ call = "classifyColor_part000"
    /\ GatePassed
    /\ args.h = Rat(25, 2)
    /\ ret.label = "red"

\* C8: below the saturation or the value threshold (15/20 in
\* colorClassifier.ts, 8/15 in part_000) classifyColor returns the unknown
\* label with confidence exactly 0.5, whatever the hue.
C8_AchromaticGate ==
    (call \in ClassifyCalls /\ ~GatePassed) =>
        ret = [label |-> Unknown, confidence |-> Rat(1, 2)]

C8_Witness ==
    /\ call = "classifyColor"
    /\ args.h = Num(195)
    /\ args.s = Num(100) /\ args.v = Rat(39, 2)
    /\ ret.label = Unknown

\* The palette of the classifier that was called.
CalledPalette ==
    IF call = "classifyColor" THEN TARGET_COLORS ELSE TARGET_COLORS_part000

\* C9: on the exact reference hue of a palette entry, with (s, v) passing
\* the gate, classifyColor returns that entry's label with confidence 1.
C9_ReflexiveOnPalette ==
    (call \in ClassifyCalls /\ GatePassed) =>
        \A i \in 1..Len(CalledPalette) :
            args.h = Num(CalledPalette[i].h) =>
                /\ ret.label = CalledPalette[i].label
                /\ ret.confidence = Num(1)

C9_Witness ==
    /\ call = "classifyColor"
    /\ GatePassed
    /\ args.h = Num(280)
    /\ ret = [label |-> "purple", confidence |-> Num(1)]

\* C10: for r, g, b in 0..255, rgbToHsv returns 0 <= h < 360,
\* 0 <= s <= 100 and 0 <= v <= 100, with h = 0 and s = 0 when the largest
\* and the smallest channel are equal.
C10_HsvRanges ==
    call = "rgbToHsv" =>
        /\ RLe(Num(0), ret.h) /\ RLt(ret.h, Num(360))
        /\ RLe(Num(0), ret.s) /\ RLe(ret.s, Num(100))
        /\ RLe(Num(0), ret.v) /\ RLe(ret.v, Num(100))
        /\ (args.r = args.g /\ args.g = args.b) =>
               (ret.h = Num(0) /\ ret.s = Num(0))

C10_Witness ==
    /\ call = "rgbToHsv"
    /\ args = [r |-> 220, g |-> 20, b |-> 60]
    /\ ret.h = Num(348)

\* The call's rectangle yields no sample: it has no width or no height, or
\* its origin lies at or beyond the right or the bottom edge.
NoSampleRegion ==
    \/ args.width <= 0
    \/ args.height <= 0
    \/ args.x >= args.imageData.width
    \/ args.y >= args.imageData.height

\* C11: when analyzeRegionColor samples no pixel (zero width or height, or
\* an origin at or beyond the right or bottom edge), it returns the unknown
\* label with confidence 0, RGB (0,0,0) and HSV (0,0,0).
C11_EmptySampleResult ==
    (call \in AnalyzeCalls /\ (sampled = {} \/ NoSampleRegion)) =>
        /\ sampled = {}
        /\ ret = [label |-> Unknown, confidence |-> Num(0),
                  rgb |-> [r |-> 0, g |-> 0, b |-> 0],
                  hsv |-> [h |-> Num(0), s |-> Num(0), v |-> Num(0)]]

C11_Witness ==
    /\ call = "analyzeRegionColor"
    /\ args.x = args.imageData.width
    /\ args.width > 0 /\ args.height > 0
    /\ sampled = {}
    /\ ret.label = Unknown /\ ret.confidence = Num(0)

\* 0 <= c <= 1 for a confidence c.
UnitInterval(c) == RLe(Num(0), c) /\ RLe(c, Num(1))

\* C12: every result returned by analyzeRegionColor and every result in the
\* sequence returned by extractDominantColors, for any buffer, region and
\* k, has a confidence between 0 and 1.
C12_ConfidenceInUnitInterval ==
    /\ call \in AnalyzeCalls => UnitInterval(ret.confidence)
    /\ call \in ExtractCalls =>
           \A i \in 1..Len(ret) : UnitInterval(ret[i].confidence)

C12_Witness ==
    /\ call = "analyzeRegionColor"
    /\ sampled # {}
    /\ ret.rgb = [r |-> 0, g |-> 128, b |-> 0]
    /\ ret.hsv.h = Num(120)
    /\ ret.confidence = Num(0)

\* The confidence radius of the module that was called.
Radius == IF call \in {"classifyColor", "analyzeRegionColor",
                       "extractDominantColors"}
          THEN 45 ELSE 60

\* hsv has hue exactly 348, a saturation that rounds to 91 and a value
\* that rounds to 86.
CrimsonHsv(hsv) ==
    /\ hsv.h = Num(348)
    /\ Round(hsv.s) = 91
    /\ Round(hsv.v) = 86

\* C13: rgbToHsv(220, 20, 60) has hue 348, saturation about 91 and value
\* about 86; a region whose mean is that colour is classified red with
\* confidence 1 - 12/D, at least 0.7, for D = 45 and for D = 60.
C13_CrimsonIsRed ==
    /\ (call = "rgbToHsv" /\ args = [r |-> 220, g |-> 20, b |-> 60]) =>
           CrimsonHsv(ret)
    /\ (call \in AnalyzeCalls /\ sampled # {}
            /\ ret.rgb = [r |-> 220, g |-> 20, b |-> 60]) =>
           /\ CrimsonHsv(ret.hsv)
           /\ ret.label = "red"
           /\ ret.confidence = RSub(Num(1), Rat(12, Radius))
           /\ RLe(Rat(7, 10), ret.confidence)

C13_Witness ==
    /\ call = "analyzeRegionColor_part000"
    /\ sampled = {[px |-> 0, py |-> 0]}
    /\ ret.rgb = [r |-> 220, g |-> 20, b |-> 60]
    /\ ret.label = "red"
    /\ ret.confidence = Rat(4, 5)

\* The circular distance in degrees between a hue h in [0, 360) and a
\* reference hue t.
CircDist(h, t) ==
    LET d == RAbs(RSub(h, Num(t))) IN RMin(d, RSub(Num(360), d))

\* The circular distance between hue h and palette entry e; the red entry
\* stands for both ends of the circle, 0 and 360.
EntryDist(h, e) ==
    IF e.label = "red"
    THEN RMin(CircDist(h, e.h), CircDist(h, 360))
    ELSE CircDist(h, e.h)

\* The circular distances between hue h and the entries of palette pal
\* from the i-th on, in palette order.
RECURSIVE EntryDists(_, _, _)
EntryDists(h, pal, i) ==
    IF i > Len(pal) THEN <<>>
    ELSE <<EntryDist(h, pal[i])>> \o EntryDists(h, pal, i + 1)

\* The first position of the least distance in ds.
FirstLeast(ds) ==
    CHOOSE i \in 1..Len(ds) :
        /\ \A m \in 1..Len(ds) : RLe(ds[i], ds[m])
        /\ \A m \in 1..(i - 1) : RLt(ds[i], ds[m])

\* The first entry of palette pal at the least circular distance from h.
FirstNearest(h, pal) == With(EntryDists(h, pal, 1), FirstLeast)

\* Some later entry with another label is as near to h as the first
\* nearest entry.
TiedHue(h, pal) ==
    With(EntryDists(h, pal, 1), LAMBDA ds :
    With(FirstLeast(ds), LAMBDA first :
        \E j \in (first + 1)..Len(pal) :
            /\ pal[j].label # pal[first].label
            /\ ds[j] = ds[first]))

HueInCircle == RLe(Num(0), args.h) /\ RLt(args.h, Num(360))

\* The label chosen by the nearest-hue search of the call; in
\* colorClassifier.ts the confidence floor is applied after it.
SearchedLabel ==
    IF call = "forceClassifyColor" THEN ret
    ELSE IF call = "classifyColor_part000" THEN ret.label
    ELSE closestTarget(args.h, 1, [minDistance |-> Infinity,
                                   closestLabel |-> Unknown]).closestLabel

\* C14: when a hue that passes the gate is at equal circular distance from
\* two palette entries with different labels, as 12.5 is between red (0)
\* and orange (25), the nearest-hue search of classifyColor and of
\* forceClassifyColor selects the label of the entry that comes first in
\* TARGET_COLORS.
C14_TieGoesToFirstEntry ==
    (/\ call \in ClassifyCalls \cup {"forceClassifyColor"}
     /\ call \in ClassifyCalls => GatePassed
     /\ HueInCircle
     /\ TiedHue(args.h, CalledPalette)) =>
        /\ SearchedLabel
               = CalledPalette[FirstNearest(args.h, CalledPalette)].label
        /\ call = "classifyColor" =>
               /\ ret.label \in {SearchedLabel, Unknown}
               /\ RLe(Rat(2, 5), ret.confidence) => ret.label = SearchedLabel

C14_Witness ==
    /\ call = "classifyColor"
    /\ GatePassed
    /\ args.h = Rat(75, 2)
    /\ TiedHue(args.h, TARGET_COLORS)
    /\ ret.label = "orange"

\* C15: in colorClassifier.ts (radius 45, floor 0.4), for every input that
\* passes the gate, classifyColor returns the nearest palette label exactly
\* when the confidence max(0, 1 - d/45) is at least 0.4 and otherwise the
\* unknown label, in both cases with that confidence; hue 120 (green) is
\* returned as unknown, not as yellow or sky blue.
C15_FloorRejectsFarHues ==
    (call = "classifyColor" /\ GatePassed) =>
        LET m == closestTarget(args.h, 1, [minDistance |-> Infinity,
                                           closestLabel |-> Unknown])
            conf == RMax(Num(0), RSub(Num(1), RDiv(m.minDistance, Num(45))))
            first == FirstNearest(args.h, TARGET_COLORS)
        IN /\ ret.confidence = conf
           /\ ret.label = m.closestLabel <=> RLe(Rat(2, 5), conf)
           /\ RLt(conf, Rat(2, 5)) => ret.label = Unknown
           /\ HueInCircle =>
                  /\ m.minDistance = EntryDist(args.h, TARGET_COLORS[first])
                  /\ m.closestLabel = TARGET_COLORS[first].label
           /\ args.h = Num(120) =>
                  ret = [label |-> Unknown, confidence |-> Num(0)]

C15_Witness ==
    /\ call = "classifyColor"
    /\ GatePassed
    /\ args.h = Num(120)
    /\ ret = [label |-> Unknown, confidence |-> Num(0)]

\* The mean colour of the analysed region passes the gate of its module.
MeanPassesGate ==
    IF call = "analyzeRegionColor"
    THEN RLe(Num(15), ret.hsv.s) /\ RLe(Num(20), ret.hsv.v)
    ELSE RLe(Num(8), ret.hsv.s) /\ RLe(Num(15), ret.hsv.v)

\* C16 (as claimed): analyzeRegionColor returns the unknown label with
\* confidence exactly 0 only when no pixel was sampled.
C16_ZeroOnlyWhenEmpty ==
    (call \in AnalyzeCalls /\ ret.label = Unknown
         /\ ret.confidence = Num(0)) => sampled = {}

\* C16 (amended): a sampled region labelled unknown carries confidence 0.5
\* when its mean colour fails the gate; otherwise the call is that of
\* colorClassifier.ts, the confidence is below the floor 0.4, and it is
\* exactly 0 when and only when the mean hue is at least 45 degrees from
\* every palette hue.
C16_ZeroConfidenceCases ==
    (call \in AnalyzeCalls /\ sampled # {} /\ ret.label = Unknown) =>
        IF ~MeanPassesGate
        THEN ret.confidence = Rat(1, 2)
        ELSE /\ call = "analyzeRegionColor"
             /\ RLt(ret.confidence, Rat(2, 5))
             /\ ret.confidence = Num(0)
                    <=> RLe(Num(45),
                            EntryDist(ret.hsv.h,
                                TARGET_COLORS[FirstNearest(ret.hsv.h,
                                                  TARGET_COLORS)]))

C16_Witness ==
    /\ call = "analyzeRegionColor"
    /\ args.imageData = mkImage(SmallW, SmallH,
                                <<Green, Crimson, NearWhite, Gold>>)
    /\ sampled = {[px |-> 0, py |-> 0]}
    /\ MeanPassesGate
    /\ ret.label = Unknown
    /\ ret.confidence = Num(0)

\* The population the call passed to kMeansClustering.
CallPixels ==
    pixelsOf(args.imageData,
             populationCoords(args.imageData, args.x, args.y, args.width,
                              args.height), 1)

\* The arguments of Math.sqrt for the distances from p to the centroids of
\* cs, in centroid order, from position m on.
RECURSIVE DistsFrom(_, _, _)
DistsFrom(p, cs, m) ==
    IF m > Len(cs) THEN <<>>
    ELSE <<sqDist(p, cs[m])>> \o DistsFrom(p, cs, m + 1)

\* The lowest position of a least distance among ds, distances compared as
\* the square roots the code takes.
LeastIn(ds) ==
    CHOOSE i \in 1..Len(ds) :
        /\ \A m \in 1..Len(ds) : ~sqrtLess(ds[m], ds[i])
        /\ \A m \in 1..(i - 1) : sqrtLess(ds[i], ds[m])

\* The lowest position in cs of a centroid at the least distance from p.
Closest(p, cs) == With(DistsFrom(p, cs, 1), LeastIn)

\* The closest centroid of every pixel, in pixel order, from position j on.
RECURSIVE ClosestFrom(_, _, _)
ClosestFrom(pixels, cs, j) ==
    IF j > Len(pixels) THEN <<>>
    ELSE <<Closest(pixels[j], cs)>> \o ClosestFrom(pixels, cs, j + 1)

\* The positions of the pixels whose closest centroid in cs is centroid i.
Members(pixels, cs, i) ==
    {j \in 1..Len(pixels) : Closest(pixels[j], cs) = i}

\* The arithmetic mean of the pixels at the positions in members.
MeanOf(pixels, members) ==
    With(Num(Cardinality(members)), LAMBDA n :
        << RDiv(sumOver(pixels, members, 1), n),
           RDiv(sumOver(pixels, members, 2), n),
           RDiv(sumOver(pixels, members, 3), n) >>)

\* after is what the rule of C17 makes of the centroids in before.
RoundFollowsRule(pixels, before, after) ==
    /\ Len(after) = Len(before)
    /\ before # <<>> =>
           With(ClosestFrom(pixels, before, 1), LAMBDA near :
               \A i \in 1..Len(before) :
                   With({j \in 1..Len(pixels) : near[j] = i},
                        LAMBDA members :
                       after[i] = (IF members = {} THEN before[i]
                                   ELSE MeanOf(pixels, members))))

\* The pairs of centroid lists at the start and at the end of a round.
RoundPairs == {<<rounds[r], rounds[r + 1]>> : r \in 1..(Len(rounds) - 1)}

\* C17: in every round of kMeansClustering each pixel goes to the centroid
\* at the least Euclidean RGB distance, the lowest index winning a tie; a
\* centroid that received no pixel keeps its value and every other centroid
\* becomes the arithmetic mean of its pixels.
C17_RoundAssignsAndAverages ==
    (call \in ExtractCalls /\ kmeansRan /\ rounds # <<>>) =>
        /\ Len(rounds) = 11
        /\ centroids = rounds[11]
        /\ With(CallPixels, LAMBDA pixels :
               \A pair \in RoundPairs :
                   RoundFollowsRule(pixels, pair[1], pair[2]))

C17_Witness ==
    /\ call = "extractDominantColors"
    /\ kmeansRan /\ Len(rounds) = 11
    /\ args.k = 2
    /\ rounds[1][1] = rounds[1][2]
    /\ Members(CallPixels, rounds[1], 2) = {}
    /\ Cardinality(Members(CallPixels, rounds[1], 1)) >= 2
    /\ rounds[2][1] # rounds[1][1]
    /\ rounds[2][2] = rounds[1][2]

\* C18: for a non-empty population and k >= 1, kMeansClustering starts from
\* exactly k centroids, each one a pixel of the population (the same pixel
\* may be drawn twice), and ends with exactly k centroids after its 10
\* rounds; extractDominantColors returns at most k results.
C18_ExactlyKCentroids ==
    (call \in ExtractCalls /\ args.k >= 1) =>
        /\ Len(ret) <= args.k
        /\ (kmeansRan /\ PopulationSize >= 1) =>
               /\ Len(rounds) = 11
               /\ Len(rounds[1]) = args.k
               /\ \A i \in 1..Len(rounds[1]) :
                      rounds[1][i] \in asSet(CallPixels)
               /\ Len(rounds[11]) = args.k
               /\ Len(centroids) = args.k

C18_Witness ==
    /\ call = "extractDominantColors_part000"
    /\ kmeansRan
    /\ args.k = 3 /\ PopulationSize = 4
    /\ rounds[1][1] = rounds[1][2] /\ rounds[1][2] = rounds[1][3]
    /\ Len(centroids) = 3
    /\ Len(ret) = 3

\* C19 (as claimed): every result returned by extractDominantColors, on
\* the k-means path and on the fallback for a population smaller than k,
\* has a label other than unknown.
C19_NoUnknownReturned ==
    call \in ExtractCalls =>
        \A i \in 1..Len(ret) : ret[i].label # Unknown

\* The single result of the fallback path passes the gate of its module.
FallbackPassesGate ==
    IF call = "extractDominantColors"
    THEN RLe(Num(15), ret[1].hsv.s) /\ RLe(Num(20), ret[1].hsv.v)
    ELSE RLe(Num(8), ret[1].hsv.s) /\ RLe(Num(15), ret[1].hsv.v)

\* C19 (amended): every result of the k-means path has a label other than
\* unknown.  The fallback returns its single result unfiltered: it is
\* unknown when the stride-2 sample is empty (confidence 0), when the mean
\* fails the gate (confidence 0.5), or, in colorClassifier.ts, when the
\* confidence is below the floor 0.4.
C19_UnknownOnlyOnFallback ==
    call \in ExtractCalls =>
        /\ kmeansRan =>
               \A i \in 1..Len(ret) : ret[i].label \in ColorLabel \ {Unknown}
        /\ ~kmeansRan =>
               /\ Len(ret) = 1
               /\ ret[1].label = Unknown <=>
                      \/ ret[1].confidence = Num(0) /\ ret[1].hsv.v = Num(0)
                      \/ ~FallbackPassesGate /\ ret[1].confidence = Rat(1, 2)
                      \/ /\ call = "extractDominantColors"
                         /\ FallbackPassesGate
                         /\ RLt(ret[1].confidence, Rat(2, 5))

C19_Witness ==
    /\ call = "extractDominantColors_part000"
    /\ ~kmeansRan
    /\ args.k = 1 /\ PopulationSize = 0
    /\ ret = <<[label |-> Unknown, confidence |-> Num(0),
                rgb |-> [r |-> 0, g |-> 0, b |-> 0],
                hsv |-> [h |-> Num(0), s |-> Num(0), v |-> Num(0)]]>>

\* Every pixel of the call's population has the same RGB.
UniformPopulation ==
    \A i, j \in 1..Len(CallPixels) : CallPixels[i] = CallPixels[j]

\* What the called function returns when the draws are rand.
ResultUnder(rand) ==
    IF call = "extractDominantColors"
    THEN extractDominantColors(args.imageData, args.x, args.y, args.width,
                               args.height, args.k, rand).result
    ELSE extractDominantColors_part000(args.imageData, args.x, args.y,
             args.width, args.height, args.k, rand).result

\* The outcome of the draws in which every draw yields the first pixel.
FirstPixelDraws == [i \in 1..args.k |-> 0]

\* C20: when all sampled pixels have the same RGB and the population is at
\* least k, extractDominantColors returns the same sequence for every
\* outcome of the random initialization: whatever the draws of the call
\* were, its result is the one the same arguments give when every draw
\* yields the first pixel.
C20_UniformRegionIgnoresDraws ==
    (call \in ExtractCalls /\ PopulationSize >= 1
         /\ PopulationSize >= args.k /\ UniformPopulation) =>
        /\ args.rand \in RandOutcomes(PopulationSize, args.k)
        /\ FirstPixelDraws \in RandOutcomes(PopulationSize, args.k)
        /\ ResultUnder(FirstPixelDraws) = ret
        /\ \A i, j \in 1..Len(ret) : ret[i] = ret[j]

C20_Witness ==
    /\ call = "extractDominantColors"
    /\ UniformPopulation
    /\ PopulationSize = 4 /\ args.k = 3
    /\ Cardinality(RandOutcomes(PopulationSize, args.k)) > 1
    /\ args.rand[1] # args.rand[2]
    /\ Len(ret) = 3
    /\ \A i \in 1..3 : ret[i].label = "skyblue"

\* C21 (as claimed): in BlueBoxQuiz, under any interleaving of checkAnswer,
\* reset and timer callbacks, a message shown by a wrong attempt is cleared
\* by a timer callback only 2000 ms or more after that attempt, and never
\* by the timer of an attempt made before it.
C21_MessageOutlivesEarlierTimers ==
    cleared # NoClearing =>
        /\ cleared.at - cleared.message.at >= TimeoutMs
        /\ cleared.timer.at >= cleared.message.at

====
